---- MODULE Spec2Model ----
(***************************************************************************)
(* The proxy bridge.  Server plane (src/g-server.js): the ProxyManager     *)
(* that binds one browser WebSocket, forwards local HTTP requests over it  *)
(* and renders the browser's event frames onto the client responses, and   *)
(* the rewriting of a request into its RequestSpec.  Browser plane         *)
(* (src/g-browser.js): the connection manager, the retrying fetcher and    *)
(* the streamer that turns an upstream response into event frames.         *)
(***************************************************************************)
EXTENDS Integers, Sequences, FiniteSets, TLC

\* ---------------------------------------------------------------- bounds
\* number of environment events over a run: browser connections accepted,
\* local HTTP requests received and frames passed to one of the four handlers
MaxEvents == 5
\* number of characters res.write() may put on one client response
MaxBody == 2
\* number of RequestSpecs the browser plane receives over a run
MaxOps == 1

\* ------------------------------------------------------------- constants
\* WebSocket.readyState values (ws library); isConnected compares with 1
CONNECTING == 0
OPEN == 1
CLOSING == 2
CLOSED == 3

Null == 0

\* ConnectionManager.socket before the first establish()
NoSocket == -1

\* maxRetries of RequestProcessor.execute
maxRetries == 15

\* the server refuses at most this many connection attempts in a row
MaxRefused == 2

\* maxReconnectAttempts of ConnectionManager
Infinity == "Infinity"
maxReconnectAttempts == Infinity

Sockets == 1..MaxEvents
Handles == 1..MaxEvents
Ids == 1..MaxEvents

\* ------------------------------------------------------- header handling
EmptyMap == [k \in {} |-> ""]

\* String.prototype.toLowerCase on the header names that occur
LowerTable ==
  ("Content-Type" :> "content-type") @@ ("content-type" :> "content-type") @@
  ("Content-Length" :> "content-length") @@
  ("Transfer-Encoding" :> "transfer-encoding") @@
  ("Content-Encoding" :> "content-encoding") @@
  ("CONNECTION" :> "connection") @@ ("Connection" :> "connection") @@
  ("Cache-Control" :> "cache-control") @@ ("X-Goog-Trace" :> "x-goog-trace") @@
  ("Access-Control-Allow-Origin" :> "access-control-allow-origin") @@
  ("Access-Control-Allow-Methods" :> "access-control-allow-methods") @@
  ("Access-Control-Allow-Headers" :> "access-control-allow-headers")

toLowerCase(key) == LowerTable[key]

\* headers the CORS middleware puts on every response before the proxy runs
CorsHeaders ==
  ("access-control-allow-origin" :> "*") @@
  ("access-control-allow-methods" :> "GET, POST, PUT, DELETE, OPTIONS") @@
  ("access-control-allow-headers" :> "Content-Type, Authorization")

\* ------------------------------------------------------ client responses
\* body of a res.json() reply; NoJson when none was sent
mkJson(e, m, id) == [error |-> e, message |-> m, request_id |-> id]
NoJson == mkJson("", "", Null)

\* a fresh express response: status 200, CORS headers, nothing sent
NewRes ==
  [statusCode |-> 200, headers |-> CorsHeaders, headersSent |-> FALSE,
   body |-> <<>>, json |-> NoJson, finished |-> FALSE]

\* res.status(code)
status(r, code) == [r EXCEPT !.statusCode = code]

\* res.setHeader(key, value): names are matched case-insensitively
setHeader(r, key, value) ==
  [r EXCEPT !.headers = (toLowerCase(key) :> value) @@ r.headers]

\* res.getHeader(name) is defined
hasHeader(r, name) == toLowerCase(name) \in DOMAIN r.headers

\* res.write(data): commits the headers and appends data
write(r, data) == [r EXCEPT !.headersSent = TRUE, !.body = r.body \o data]

\* res.end(): commits the headers and finishes the response
end(r) == [r EXCEPT !.headersSent = TRUE, !.finished = TRUE]

\* res.json(obj): content-type defaults to application/json, body, end
json(r, obj) ==
  end([(IF hasHeader(r, "Content-Type") THEN r
        ELSE setHeader(r, "Content-Type", "application/json"))
       EXCEPT !.json = obj])

\* ------------------------------------------------------------ the frames
\* header maps carried by response_headers frames
HeadersNoType ==
  ("Content-Length" :> "17") @@ ("CONNECTION" :> "close") @@
  ("X-Goog-Trace" :> "t1")
HeadersJson ==
  ("Content-Type" :> "application/json") @@ ("Transfer-Encoding" :> "chunked")

\* chunk payloads: the empty string and two one-character strings
DataChoices == { <<>>, <<"x">>, <<"y">> }

\* text on the control channel that JSON.parse rejects
Malformed == [raw |-> "not json"]

\* frames naming an id of the set ids, frames naming none, unparseable text
FramesFor(ids) ==
  [request_id : ids, event_type : {"response_headers"}, status : {200},
   headers : {HeadersNoType}]
  \cup [request_id : ids, event_type : {"response_headers"}, status : {201},
        headers : {HeadersJson}]
  \cup [request_id : ids, event_type : {"chunk"}, data : DataChoices]
  \cup [request_id : ids, event_type : {"chunk"}]
  \cup [request_id : ids, event_type : {"stream_close"}]
  \cup [request_id : ids, event_type : {"error"}, status : {429},
        message : {"upstream failed"}]
  \cup [request_id : ids, event_type : {"error"}, message : {"upstream failed"}]
  \cup [request_id : ids, event_type : {"ping"}]
  \cup [event_type : {"chunk"}, data : {<<"x">>}]
  \cup { Malformed }

\* frames the browser plane (or anything else on the socket) may send
Frames == FramesFor(Ids)

\* ------------------------------------------------------ request rewriter
\* JSON values: string, array, object (properties in insertion order), null
Str(s) == [type |-> "string", str |-> s]
Arr(items) == [type |-> "array", items |-> items]
Obj(props) == [type |-> "object", props |-> props]
JsonNull == [type |-> "null"]
Undefined == [type |-> "undefined"]
Prop(k, v) == [k |-> k, v |-> v]

\* what JSON.parse throws on text that is not JSON
SyntaxError == [type |-> "SyntaxError"]

\* obj[k], Undefined when obj has no such property
getProp(obj, k) ==
  IF obj.type = "object" /\ \E i \in DOMAIN obj.props : obj.props[i].k = k
  THEN obj.props[CHOOSE i \in DOMAIN obj.props : obj.props[i].k = k].v
  ELSE Undefined

\* delete obj[k]
deleteProp(obj, k) ==
  Obj(SelectSeq(obj.props, LAMBDA p : p.k # k))

\* obj[k] = v: an existing property keeps its place, a new one goes last
setProp(obj, k, v) ==
  IF \E i \in DOMAIN obj.props : obj.props[i].k = k
  THEN Obj([i \in DOMAIN obj.props |->
             IF obj.props[i].k = k THEN Prop(k, v) ELSE obj.props[i]])
  ELSE Obj(Append(obj.props, Prop(k, v)))

\* JavaScript truthiness of a value
truthy(v) ==
  CASE v.type = "string" -> v.str # ""
    [] v.type \in {"array", "object"} -> TRUE
    [] OTHER -> FALSE

\* v.length > 0; an object without a length property compares false
lengthPositive(v) ==
  CASE v.type = "string" -> v.str # ""
    [] v.type = "array" -> Len(v.items) > 0
    [] OTHER -> FALSE

\* JSON.stringify; the strings that occur need no escaping
RECURSIVE stringify(_)
RECURSIVE stringifyItems(_)
RECURSIVE stringifyProps(_)
stringifyItems(items) ==
  IF items = <<>> THEN ""
  ELSE stringify(Head(items)) \o
       (IF Tail(items) = <<>> THEN "" ELSE "," \o stringifyItems(Tail(items)))
stringifyProps(props) ==
  IF props = <<>> THEN ""
  ELSE "\"" \o Head(props).k \o "\":" \o stringify(Head(props).v) \o
       (IF Tail(props) = <<>> THEN "" ELSE "," \o stringifyProps(Tail(props)))
stringify(v) ==
  CASE v.type = "string" -> "\"" \o v.str \o "\""
    [] v.type = "array" -> "[" \o stringifyItems(v.items) \o "]"
    [] v.type = "object" -> "{" \o stringifyProps(v.props) \o "}"
    [] v.type = "null" -> "null"

\* values a tools property takes in the requests considered
ToolsChoices ==
  { Arr(<<>>), Arr(<<Obj(<<Prop("name", Str("memory"))>>)>>), Obj(<<>>),
    Str(""), Str("memory"), JsonNull }

\* the fixed list forwardRequest writes to safetySettings
BlockNone(category) ==
  Obj(<<Prop("category", Str(category)), Prop("threshold", Str("BLOCK_NONE"))>>)
SafetySettings ==
  Arr(<<BlockNone("HARM_CATEGORY_HARASSMENT"),
        BlockNone("HARM_CATEGORY_HATE_SPEECH"),
        BlockNone("HARM_CATEGORY_SEXUALLY_EXPLICIT"),
        BlockNone("HARM_CATEGORY_DANGEROUS_CONTENT"),
        BlockNone("HARM_CATEGORY_CIVIC_INTEGRITY")>>)

\* JSON objects of client requests: contents, tools, safetySettings, each
\* present or not
OptProp(k, values) == { <<>> } \cup { <<Prop(k, v)>> : v \in values }
BodyObjects ==
  { Obj(c \o t \o s) : c \in OptProp("contents", {Str("hi")}),
                       t \in OptProp("tools", ToolsChoices),
                       s \in OptProp("safetySettings",
                                   {Arr(<<>>), SafetySettings}) }

\* every JSON value a request body can denote
JsonValues == BodyObjects \cup { Arr(<<>>), Str("hi"), JsonNull }

\* texts that are not JSON
NonJsonTexts == { "hello", "{tools", "a=b" }

\* JSON.parse: the value whose serialisation is the text, else SyntaxError
parse(text) ==
  IF \E v \in JsonValues : stringify(v) = text
  THEN CHOOSE v \in JsonValues : stringify(v) = text
  ELSE SyntaxError

\* request paths, as the sequence of their segments: /a/b is <<"a", "b">>
PathChoices ==
  { <<"v1beta", "models", "gemini-pro:generateContent">>,
    <<"v1beta", "models", "models", "gemini-pro:generateContent">>,
    <<"v1beta", "models", "models", "models", "gemini-pro">>,
    <<"v1beta", "models", "models">> }

\* targetPath.includes('/models/models/') and the position it starts at
doubled(path) ==
  {i \in 1..(Len(path) - 2) : path[i] = "models" /\ path[i + 1] = "models"}

\* targetPath.replace('/models/models/', '/models/'): first occurrence only
repairPath(path) ==
  IF doubled(path) # {}
  THEN LET i == CHOOSE j \in doubled(path) : \A k \in doubled(path) : j <= k
       IN SubSeq(path, 1, i) \o SubSeq(path, i + 2, Len(path))
  ELSE path

\* query strings as express parses them
QueryChoices ==
  { EmptyMap, ("key" :> "AIza"), ("key" :> ""), ("alt" :> "sse"),
    ("alt" :> "sse") @@ ("key" :> "AIza"), ("alt" :> "sse") @@ ("key" :> "") }

\* the copy of req.query with key deleted when its value is truthy
cleanQuery(query) ==
  IF "key" \in DOMAIN query /\ truthy(Str(query["key"]))
  THEN [k \in DOMAIN query \ {"key"} |-> query[k]]
  ELSE query

\* request headers, names lower-cased by node
HeaderChoices ==
  { ("host" :> "localhost:3000") @@ ("connection" :> "keep-alive") @@
      ("content-length" :> "2") @@ ("content-type" :> "application/json"),
    ("content-type" :> "text/plain") @@ ("x-goog-api-key" :> "AIza") }

\* ProxyManager.sanitizeHeaders
sanitizeHeaders(headers) ==
  [k \in DOMAIN headers \ {"host", "connection", "content-length"} |->
     headers[k]]

\* req.body: an object or array from express.json, a string from
\* express.text
BodyChoices ==
  BodyObjects \cup { Arr(<<>>) }
  \cup { Str(stringify(v)) : v \in JsonValues }
  \cup { Str(t) : t \in NonJsonTexts }

\* a string body is parsed; text that is not JSON stays the string it was
parsedBody(body) ==
  IF body.type = "string"
  THEN LET p == parse(body.str) IN IF p = SyntaxError THEN body ELSE p
  ELSE body

\* hasTools that never finds tools
hasTools_never(finalBody) ==
  FALSE

\* hasTools = finalBody.tools && finalBody.tools.length > 0
hasTools(finalBody) ==
  truthy(getProp(finalBody, "tools"))
    /\ lengthPositive(getProp(finalBody, "tools"))

\* the rewrite of an object body; a property set on an array is not
\* serialised, so an array comes out as it went in
rewriteBody(finalBody) ==
  IF finalBody.type = "object"
  THEN setProp(IF hasTools(finalBody) THEN deleteProp(finalBody, "tools")
               ELSE finalBody,
               "safetySettings", SafetySettings)
  ELSE finalBody

\* local requests the rewriter is applied to
Requests ==
  [method : {"POST"}, path : PathChoices, query : QueryChoices,
   headers : HeaderChoices, body : BodyChoices]

\* no request, no RequestSpec
NoReq ==
  [method |-> "", path |-> <<>>, query |-> EmptyMap, headers |-> EmptyMap,
   body |-> JsonNull]
NoSpec ==
  [method |-> "", path |-> <<>>, query_params |-> EmptyMap,
   headers |-> EmptyMap, body |-> ""]

\* the requestSpec forwardRequest builds (request_id apart)
buildRequestSpec(r) ==
  [method |-> r.method,
   path |-> repairPath(r.path),
   query_params |-> cleanQuery(r.query),
   headers |-> sanitizeHeaders(r.headers),
   body |-> stringify(rewriteBody(parsedBody(r.body)))]

\* ----------------------------------------------------------------- state
VARIABLES
  browserClient,     \* ProxyManager.browserClient: a socket or Null
  readyState,        \* readyState of every WebSocket
  requestIdCounter,  \* ProxyManager.requestIdCounter
  pendingRequests,   \* ProxyManager.pendingRequests: id -> [res, headersSent]
  timers,            \* the setTimeout armed for each id: kind or "none"
  armed,             \* id -> the timeouts set and neither cleared nor fired
  res,               \* the express response of every local request
  arrived,           \* number of local HTTP requests received so far
  transmitted,       \* id -> [ws, res]: RequestSpec frames sent to a socket
  expected,          \* history: id -> concatenated data of its chunk frames
  terminal,          \* history: id -> the event that terminated it
  events,            \* history: number of environment events so far
  first,             \* history: id -> the first frame passed to a handler
  dropped,           \* history: events counted when a frame was first dropped
  req,               \* rewriter: the local request being forwarded
  requestSpec,       \* rewriter: the RequestSpec built for it
  socket,            \* browser: readyState of ConnectionManager.socket
  cmIsConnected,     \* browser: ConnectionManager.isConnected
  reconnectTimer,    \* browser: number of reconnect setTimeouts pending
  reconnectAttempts, \* ConnectionManager.reconnectAttempts
  liveSockets,       \* browser: WebSockets created and not yet closed
  activeOperations,  \* browser: ids with a controller in the map
  aborted,           \* browser: id -> its abort signal is set
  pc,                \* browser: id -> where its _processProxyRequest is
  attempt,           \* browser: id -> loop variable of execute
  reads,             \* browser: id -> chunks read from the upstream body
  emitted,           \* browser: id -> frames passed to transmit, in order
  delivered,         \* browser: id -> frames transmit sent on the socket
  cut,               \* history: id -> the channel closed while in flight
  thrown             \* history: id -> the error its processing ended with

svars == <<browserClient, readyState, requestIdCounter, pendingRequests,
           timers, armed, res, arrived, transmitted, expected, terminal,
           events, first, dropped>>
rvars == <<req, requestSpec>>
bvars == <<socket, cmIsConnected, reconnectTimer, reconnectAttempts,
           liveSockets, activeOperations, aborted, pc, attempt, reads,
           emitted, delivered, cut, thrown>>

vars == <<svars, rvars, bvars>>

\* no frame was handled yet
NoFrame == [event_type |-> "none"]

\* operations (request ids) the browser plane is given
Ops == 1..MaxOps

\* no error was thrown
NoError == [name |-> "none"]

\* the rewriter is not in use
RewriterIdle ==
  /\ req = NoReq
  /\ requestSpec = NoSpec

\* the browser plane after its constructors: no socket, no operation
BrowserStart ==
  /\ socket = NoSocket
  /\ cmIsConnected = FALSE
  /\ reconnectTimer = 0
  /\ reconnectAttempts = 0
  /\ liveSockets = 0
  /\ activeOperations = {}
  /\ aborted = [op \in Ops |-> FALSE]
  /\ pc = [op \in Ops |-> "none"]
  /\ attempt = [op \in Ops |-> 0]
  /\ reads = [op \in Ops |-> 0]
  /\ emitted = [op \in Ops |-> <<>>]
  /\ delivered = [op \in Ops |-> <<>>]
  /\ cut = [op \in Ops |-> FALSE]
  /\ thrown = [op \in Ops |-> NoError]

\* the server plane after the ProxyManager constructor
ServerStart ==
  /\ browserClient = Null
  /\ readyState = [s \in Sockets |-> CONNECTING]
  /\ requestIdCounter = 0
  /\ pendingRequests = EmptyMap
  /\ timers = [i \in Ids |-> "none"]
  /\ armed = [i \in Ids |-> <<>>]
  /\ res = [h \in Handles |-> NewRes]
  /\ arrived = 0
  /\ transmitted = EmptyMap
  /\ expected = [i \in Ids |-> <<>>]
  /\ terminal = [i \in Ids |-> "none"]
  /\ events = 0
  /\ first = [i \in Ids |-> NoFrame]
  /\ dropped = 0

Init ==
  /\ ServerStart
  /\ RewriterIdle
  /\ BrowserStart

\* Map.has / Map.delete on a function
has(m, k) == k \in DOMAIN m
delete(m, k) == [x \in DOMAIN m \ {k} |-> m[x]]


\* isConnected without the readyState comparison
isConnected_ignoresReadyState ==
  browserClient # Null

\* ProxyManager.isConnected
isConnected ==
  browserClient # Null /\ readyState[browserClient] = OPEN

\* ------------------------------------------------------------ connection
\* wss 'connection' handler: the new socket becomes the bound browser
Connection(s) ==
  /\ UNCHANGED <<rvars, bvars, dropped>>
  /\ events < MaxEvents
  /\ events' = events + 1
  /\ readyState[s] = CONNECTING
  /\ \A t \in Sockets : t < s => readyState[t] # CONNECTING
  /\ readyState' = [readyState EXCEPT ![s] = OPEN]
  /\ browserClient' = s
  /\ UNCHANGED <<requestIdCounter, pendingRequests, timers, armed, res,
                 arrived, transmitted, expected, terminal, first>>

\* the closing handshake of a socket starts: readyState leaves OPEN before
\* the 'close' event is emitted
WsBeginClose(s) ==
  /\ UNCHANGED <<rvars, bvars, dropped>>
  /\ readyState[s] = OPEN
  /\ readyState' = [readyState EXCEPT ![s] = CLOSING]
  /\ UNCHANGED <<browserClient, requestIdCounter, pendingRequests, timers,
                 armed, res, arrived, transmitted, expected, terminal, events,
                 first>>

\* what the 'close' handler does to the response of one pending entry
closeReply(r) ==
  IF ~r.headersSent
  THEN json(status(r, 502), mkJson("Browser disconnected", "disconnected", Null))
  ELSE r

\* ws 'close' handler: unbind, answer the pending requests, clear the table
WsClose(s) ==
  /\ UNCHANGED <<rvars, bvars, dropped>>
  /\ readyState[s] \in {OPEN, CLOSING}
  /\ readyState' = [readyState EXCEPT ![s] = CLOSED]
  /\ browserClient' = Null
  /\ res' = [h \in Handles |->
              IF \E i \in DOMAIN pendingRequests : pendingRequests[i].res = h
              THEN closeReply(res[h]) ELSE res[h]]
  /\ pendingRequests' = EmptyMap
  /\ terminal' = [i \in Ids |->
                   IF has(pendingRequests, i) THEN "disconnect" ELSE terminal[i]]
  /\ UNCHANGED <<requestIdCounter, timers, armed, arrived, transmitted,
                 expected, events, first>>

\* a clearTimeout that cancels nothing
clearTimeout_nothing(handles, stored) == handles

\* clearTimeout(pending.timeout): pending.timeout is the timeout set last
\* for the id; clearing one that has fired or was cleared does nothing
clearTimeout(handles, stored) ==
  IF stored # "none" /\ handles # <<>>
  THEN SubSeq(handles, 1, Len(handles) - 1)
  ELSE handles

\* setTimeout(callback, delay): one more timeout, named by its callback
setTimeout(handles, kind) == Append(handles, kind)

\* --------------------------------------------------------- local request
\* the timer armed by forwardRequest fires
initialTimeout(id) ==
  IF has(pendingRequests, id)
  THEN LET h == pendingRequests[id].res IN
       /\ pendingRequests' = delete(pendingRequests, id)
       /\ res' = [res EXCEPT ![h] =
                   IF ~res[h].headersSent
                   THEN json(status(res[h], 504),
                             mkJson("Request timeout", "", id))
                   ELSE res[h]]
  ELSE UNCHANGED <<pendingRequests, res>>

\* ProxyManager.forwardRequest for the next local request
ForwardRequest ==
  /\ UNCHANGED <<rvars, bvars, dropped>>
  /\ events < MaxEvents
  /\ events' = events + 1
  /\ arrived' = arrived + 1
  /\ LET h == arrived + 1 IN
     IF ~isConnected
     THEN /\ res' = [res EXCEPT ![h] =
                      json(status(res[h], 503),
                           mkJson("Browser not connected", "run g-browser.js", Null))]
          /\ UNCHANGED <<requestIdCounter, pendingRequests, timers, armed,
                         transmitted>>
     ELSE LET id == requestIdCounter + 1 IN
          /\ requestIdCounter' = id
          /\ transmitted' = (id :> [ws |-> browserClient, res |-> h]) @@ transmitted
          /\ pendingRequests' = (id :> [res |-> h, headersSent |-> FALSE])
                                  @@ pendingRequests
          /\ timers' = [timers EXCEPT ![id] = "initial"]
          /\ armed' = [armed EXCEPT ![id] = setTimeout(@, "initial")]
          /\ UNCHANGED res
  /\ UNCHANGED <<browserClient, readyState, expected, terminal, first>>


\* ---------------------------------------------------------- event frames
\* response headers the dispatcher refuses to replay
ExcludedHeaders ==
  {"transfer-encoding", "content-encoding", "content-length", "connection"}

\* the forEach over message.headers with its filter
replayHeaders(r, headers) ==
  LET kept == {k \in DOMAIN headers : toLowerCase(k) \notin ExcludedHeaders}
      names == {toLowerCase(k) : k \in kept}
  IN [r EXCEPT !.headers =
        [n \in names \cup DOMAIN r.headers |->
           IF n \in names
           THEN headers[CHOOSE k \in kept : toLowerCase(k) = n]
           ELSE r.headers[n]]]

\* the handleResponseHeaders timer without its res.end()
headersTimeout_noEnd(id) ==
  IF has(pendingRequests, id)
  THEN /\ pendingRequests' = delete(pendingRequests, id)
       /\ UNCHANGED res
  ELSE UNCHANGED <<pendingRequests, res>>

\* the timer armed by handleResponseHeaders fires
headersTimeout(id) ==
  IF has(pendingRequests, id)
  THEN LET h == pendingRequests[id].res IN
       /\ pendingRequests' = delete(pendingRequests, id)
       /\ res' = [res EXCEPT ![h] = end(res[h])]
  ELSE UNCHANGED <<pendingRequests, res>>

\* the timer armed by handleChunk fires
chunkTimeout(id) ==
  IF has(pendingRequests, id)
  THEN LET h == pendingRequests[id].res IN
       /\ pendingRequests' = delete(pendingRequests, id)
       /\ res' = [res EXCEPT ![h] =
                   IF ~res[h].headersSent THEN end(status(res[h], 504))
                   ELSE end(res[h])]
  ELSE UNCHANGED <<pendingRequests, res>>

\* handleResponseHeaders without the 'headers already sent' return
handleResponseHeaders_noGuard(message) ==
  LET id == message.request_id
      pending == pendingRequests[id]
      h == pending.res
      r1 == replayHeaders(status(res[h], message.status), message.headers)
      r2 == IF ~hasHeader(r1, "content-type") /\ message.status = 200
            THEN setHeader(r1, "Content-Type", "text/event-stream")
            ELSE r1
  IN /\ timers' = [timers EXCEPT ![id] = "headers"]
     /\ armed' = [armed EXCEPT ![id] =
                   setTimeout(clearTimeout(@, timers[id]), "headers")]
     /\ res' = [res EXCEPT ![h] = r2]
     /\ pendingRequests' = [pendingRequests EXCEPT ![id].headersSent = TRUE]

\* ProxyManager.handleResponseHeaders
handleResponseHeaders(message) ==
  LET id == message.request_id
      pending == pendingRequests[id]
      h == pending.res
      r1 == replayHeaders(status(res[h], message.status), message.headers)
      r2 == IF ~hasHeader(r1, "content-type") /\ message.status = 200
            THEN setHeader(r1, "Content-Type", "text/event-stream")
            ELSE r1
  IN /\ timers' = [timers EXCEPT ![id] = "headers"]
     /\ armed' = [armed EXCEPT ![id] =
                   setTimeout(clearTimeout(@, timers[id]), "headers")]
     /\ IF pending.headersSent
        THEN UNCHANGED <<pendingRequests, res>>
        ELSE /\ res' = [res EXCEPT ![h] = r2]
             /\ pendingRequests' =
                  [pendingRequests EXCEPT ![id].headersSent = TRUE]

\* the SSE headers handleChunk forces when none were sent
forceSseHeaders(r) ==
  setHeader(
    setHeader(
      setHeader(status(r, 200), "Content-Type", "text/event-stream"),
      "Cache-Control", "no-cache"),
    "Connection", "keep-alive")

\* handleChunk that returns after forcing the headers, losing that chunk
handleChunk_dropsFirst(message) ==
  LET id == message.request_id
      pending == pendingRequests[id]
      h == pending.res
  IN /\ timers' = [timers EXCEPT ![id] = "chunk"]
     /\ armed' = [armed EXCEPT ![id] =
                   setTimeout(clearTimeout(@, timers[id]), "chunk")]
     /\ pendingRequests' = [pendingRequests EXCEPT ![id].headersSent = TRUE]
     /\ res' = [res EXCEPT ![h] =
                 IF ~pending.headersSent THEN forceSseHeaders(res[h])
                 ELSE IF "data" \in DOMAIN message
                      THEN write(res[h], message.data) ELSE res[h]]

\* handleChunk that clears the old timer and arms no new one
handleChunk_noRearm(message) ==
  LET id == message.request_id
      pending == pendingRequests[id]
      h == pending.res
      r1 == IF ~pending.headersSent THEN forceSseHeaders(res[h]) ELSE res[h]
      r2 == IF "data" \in DOMAIN message THEN write(r1, message.data) ELSE r1
  IN /\ timers' = [timers EXCEPT ![id] = "none"]
     /\ armed' = [armed EXCEPT ![id] = clearTimeout(@, timers[id])]
     /\ pendingRequests' = [pendingRequests EXCEPT ![id].headersSent = TRUE]
     /\ res' = [res EXCEPT ![h] = r2]

\* ProxyManager.handleChunk; res.write throws when the frame has no data
handleChunk(message) ==
  LET id == message.request_id
      pending == pendingRequests[id]
      h == pending.res
      r1 == IF ~pending.headersSent THEN forceSseHeaders(res[h]) ELSE res[h]
      r2 == IF "data" \in DOMAIN message THEN write(r1, message.data) ELSE r1
  IN /\ timers' = [timers EXCEPT ![id] = "chunk"]
     /\ armed' = [armed EXCEPT ![id] =
                   setTimeout(clearTimeout(@, timers[id]), "chunk")]
     /\ pendingRequests' = [pendingRequests EXCEPT ![id].headersSent = TRUE]
     /\ res' = [res EXCEPT ![h] = r2]

\* handleStreamClose without pendingRequests.delete
handleStreamClose_keepsEntry(message) ==
  LET id == message.request_id
      h == pendingRequests[id].res
  IN /\ timers' = [timers EXCEPT ![id] = "none"]
     /\ armed' = [armed EXCEPT ![id] = clearTimeout(@, timers[id])]
     /\ res' = [res EXCEPT ![h] =
                 end(IF ~res[h].headersSent THEN status(res[h], 200)
                     ELSE res[h])]
     /\ UNCHANGED pendingRequests

\* ProxyManager.handleStreamClose
handleStreamClose(message) ==
  LET id == message.request_id
      h == pendingRequests[id].res
  IN /\ timers' = [timers EXCEPT ![id] = "none"]
     /\ armed' = [armed EXCEPT ![id] = clearTimeout(@, timers[id])]
     /\ res' = [res EXCEPT ![h] =
                 end(IF ~res[h].headersSent THEN status(res[h], 200)
                     ELSE res[h])]
     /\ pendingRequests' = delete(pendingRequests, id)

\* ProxyManager.handleError
handleError(message) ==
  LET id == message.request_id
      h == pendingRequests[id].res
      code == IF "status" \in DOMAIN message THEN message.status ELSE 500
  IN /\ timers' = [timers EXCEPT ![id] = "none"]
     /\ armed' = [armed EXCEPT ![id] = clearTimeout(@, timers[id])]
     /\ res' = [res EXCEPT ![h] =
                 IF ~res[h].headersSent
                 THEN json(status(res[h], code),
                           mkJson("Proxy error", message.message, id))
                 ELSE end(res[h])]
     /\ pendingRequests' = delete(pendingRequests, id)

\* the frame parses and names an id that is in the pending table
live(data) ==
  /\ data # Malformed
  /\ "request_id" \in DOMAIN data
  /\ has(pendingRequests, data.request_id)

\* the frame reaches one of the four handlers
handled(data) ==
  /\ live(data)
  /\ data.event_type \in {"response_headers", "chunk", "stream_close", "error"}

\* handleBrowserMessage that takes an unknown event_type for stream_close
handleBrowserMessage_closesOnUnknown(data) ==
  IF ~live(data)
  THEN UNCHANGED <<pendingRequests, timers, armed, res>>
  ELSE CASE data.event_type = "response_headers" -> handleResponseHeaders(data)
         [] data.event_type = "chunk" -> handleChunk(data)
         [] data.event_type = "error" -> handleError(data)
         [] OTHER -> handleStreamClose(data)

\* ProxyManager.handleBrowserMessage
handleBrowserMessage(data) ==
  IF ~live(data)
  THEN UNCHANGED <<pendingRequests, timers, armed, res>>
  ELSE CASE data.event_type = "response_headers" -> handleResponseHeaders(data)
         [] data.event_type = "chunk" -> handleChunk(data)
         [] data.event_type = "stream_close" -> handleStreamClose(data)
         [] data.event_type = "error" -> handleError(data)
         [] OTHER -> UNCHANGED <<pendingRequests, timers, armed, res>>

\* ws 'message' handler of socket s, for one inbound frame
WsMessage(s, data) ==
  /\ UNCHANGED <<rvars, bvars>>
  /\ readyState[s] = OPEN
  /\ handled(data) => events < MaxEvents
  /\ events' = IF handled(data) THEN events + 1 ELSE events
  /\ first' = IF handled(data) /\ first[data.request_id] = NoFrame
              THEN [first EXCEPT ![data.request_id] = data]
              ELSE first
  /\ (live(data) /\ data.event_type = "chunk" /\ "data" \in DOMAIN data)
       => Len(res[pendingRequests[data.request_id].res].body) + Len(data.data)
            <= MaxBody
  /\ handleBrowserMessage(data)
  /\ expected' =
       IF live(data) /\ data.event_type = "chunk" /\ "data" \in DOMAIN data
       THEN [expected EXCEPT ![data.request_id] = @ \o data.data]
       ELSE expected
  /\ terminal' =
       IF live(data) /\ data.event_type \in {"stream_close", "error"}
       THEN [terminal EXCEPT ![data.request_id] = data.event_type]
       ELSE terminal
  /\ UNCHANGED <<browserClient, readyState, requestIdCounter, arrived,
                 transmitted>>

\* a timeout that was set and neither cleared nor fired expires and its
\* callback runs
TimerFire(id) ==
  /\ UNCHANGED <<rvars, bvars, dropped>>
  /\ armed[id] # <<>>
  /\ \E i \in DOMAIN armed[id] :
       LET kind == armed[id][i] IN
       /\ armed' = [armed EXCEPT ![id] =
                     SubSeq(@, 1, i - 1) \o SubSeq(@, i + 1, Len(@))]
       /\ timers' = [timers EXCEPT ![id] =
                      IF i = Len(armed[id]) THEN "none" ELSE @]
       /\ CASE kind = "initial" -> initialTimeout(id)
            [] kind = "headers" -> headersTimeout(id)
            [] kind = "chunk" -> chunkTimeout(id)
       /\ terminal' =
            IF has(pendingRequests, id)
            THEN [terminal EXCEPT ![id] = "timeout_" \o kind]
            ELSE terminal
  /\ UNCHANGED <<browserClient, readyState, requestIdCounter, arrived,
                 transmitted, expected, events, first>>

Next ==
  \/ \E s \in Sockets : Connection(s)
  \/ \E s \in Sockets : WsBeginClose(s)
  \/ \E s \in Sockets : WsClose(s)
  \/ ForwardRequest
  \/ \E s \in Sockets, data \in FramesFor(1..requestIdCounter) :
       WsMessage(s, data) /\ UNCHANGED dropped
  \/ \E id \in Ids : TimerFire(id)

Spec == Init /\ [][Next]_vars

\* ------------------------------------------- the server, drops recorded
\* the 'message' handler gets a frame that none of the four handlers
\* takes: unparseable, without request_id, for an id that is not pending,
\* or of an unknown event_type; the first such frame of a run is recorded
WsMessageDropped(s, data) ==
  /\ ~handled(data)
  /\ dropped = 0
  /\ WsMessage(s, data)
  /\ dropped' = events

\* the server plane with any frame arriving, the dropped frame taking the
\* place of one event of the budget
DropNext ==
  \/ \E s \in Sockets : Connection(s) /\ events' < MaxEvents
  \/ \E s \in Sockets : WsBeginClose(s)
  \/ \E s \in Sockets : WsClose(s)
  \/ ForwardRequest /\ events' < MaxEvents
  \/ \E s \in Sockets, data \in FramesFor(1..requestIdCounter) :
       WsMessage(s, data) /\ UNCHANGED dropped /\ events' < MaxEvents
  \/ \E id \in Ids : TimerFire(id)
  \/ \E s \in Sockets, data \in Frames : WsMessageDropped(s, data)

DropSpec == Init /\ [][DropNext]_vars

\* --------------------------------------------------- rewriter, on its own
\* any one local request reaches forwardRequest
RewriterInit ==
  /\ ServerStart
  /\ req \in Requests
  /\ requestSpec = NoSpec
  /\ BrowserStart

\* forwardRequest builds the RequestSpec of the request
BuildRequestSpec ==
  /\ requestSpec = NoSpec
  /\ requestSpec' = buildRequestSpec(req)
  /\ UNCHANGED <<req, svars, bvars>>

RewriterNext == BuildRequestSpec

RewriterSpec == RewriterInit /\ [][RewriterNext]_vars

\* ------------------------------------------------------ the browser plane
\* what one upstream fetch() settles with: a response, or a rejection
Response(code) == [kind |-> "response", status |-> code]
Rejection(error) == [kind |-> "reject", error |-> error]

\* response.ok
ok(response) == response.status \in 200..299

\* errors thrown inside execute and processStream; none has a status field
HttpError(code) == [name |-> "Error", message |-> "HTTP", http |-> code]
NetworkError == [name |-> "TypeError", message |-> "Failed to fetch"]
AbortError == [name |-> "AbortError", message |-> "The user aborted a request."]
Cancelled == [name |-> "Error", message |-> "Operation cancelled"]

\* upstream behaviours considered for one fetch()
FetchOutcomes ==
  { Response(200), Response(429), Response(503),
    Rejection(NetworkError), Rejection(AbortError) }

\* headers and body chunks of the upstream 2xx response
UpstreamHeaders == ("content-type" :> "text/event-stream")
UpstreamBody == << <<"d">>, <<"a">> >>

\* what reader.read() settles with
ReadResults == { "value", "done", "error" }

\* the frames of StreamHandler and ProxySystem
headersFrame(op, response) ==
  [request_id |-> op, event_type |-> "response_headers",
   status |-> response.status, headers |-> UpstreamHeaders]
chunkFrame(op, chunk) ==
  [request_id |-> op, event_type |-> "chunk", data |-> chunk]
streamEndFrame(op) ==
  [request_id |-> op, event_type |-> "stream_close"]
streamErrorFrame(op, error) ==
  [request_id |-> op, event_type |-> "error", status |-> 500,
   message |-> <<"stream error", error.message>>]
errorFrame(op, error) ==
  [request_id |-> op, event_type |-> "error",
   status |-> IF "status" \in DOMAIN error THEN error.status ELSE 500,
   message |-> <<"proxy error", error.message>>]

\* a transmit that sends whatever the state of the channel
transmit_always(op, frames) ==
  /\ emitted' = [emitted EXCEPT ![op] = @ \o frames]
  /\ delivered' = [delivered EXCEPT ![op] = @ \o frames]

\* ConnectionManager.transmit for the frames one step of op emits: sent
\* when connected, dropped otherwise
transmit(op, frames) ==
  /\ emitted' = [emitted EXCEPT ![op] = @ \o frames]
  /\ delivered' = [delivered EXCEPT ![op] =
                     IF cmIsConnected /\ socket # NoSocket
                     THEN @ \o frames ELSE @]

\* execute throws error: its finally drops the controller, and the catch
\* of _processProxyRequest reports every error not named AbortError
throw(op, error) ==
  /\ activeOperations' = activeOperations \ {op}
  /\ pc' = [pc EXCEPT ![op] = "done"]
  /\ attempt' = [attempt EXCEPT ![op] = 0]
  /\ thrown' = [thrown EXCEPT ![op] = error]
  /\ transmit(op, IF error.name = "AbortError" THEN <<>>
                  ELSE <<errorFrame(op, error)>>)

\* the catch inside the retry loop, without the attempt limit
retryOrThrow_noLimit(op, error) ==
  IF error.name = "AbortError" \/ aborted[op]
  THEN throw(op, error)
  ELSE /\ pc' = [pc EXCEPT ![op] = "delay"]
       /\ UNCHANGED <<activeOperations, attempt, thrown, emitted,
                      delivered>>

\* the catch inside the retry loop: rethrow when aborted, wait for the next
\* attempt, or leave the loop after the last one and throw lastError
retryOrThrow(op, error) ==
  IF error.name = "AbortError" \/ aborted[op]
  THEN throw(op, error)
  ELSE IF attempt[op] < maxRetries
       THEN /\ pc' = [pc EXCEPT ![op] = "delay"]
            /\ UNCHANGED <<activeOperations, attempt, thrown, emitted,
                           delivered>>
       ELSE throw(op, error)

\* ConnectionManager.establish, called by initialize() and by the
\* reconnect timer.  The timer runs for 5000 ms from the close; a retry
\* delay under way at the close ends within 1000 ms and an aborted fetch
\* rejects at once, so the cancelled operations have ended when it fires.
Establish ==
  /\ socket = NoSocket \/ reconnectTimer > 0
  /\ \A op \in Ops : aborted[op] => pc[op] \notin {"fetch", "delay"}
  /\ reconnectTimer' = IF socket = NoSocket THEN reconnectTimer
                        ELSE reconnectTimer - 1
  /\ socket' = IF cmIsConnected THEN socket ELSE CONNECTING
  /\ liveSockets' = IF cmIsConnected THEN liveSockets ELSE liveSockets + 1
  /\ UNCHANGED <<cmIsConnected, reconnectAttempts, activeOperations, aborted, pc, attempt,
                 reads, emitted, delivered, cut, thrown>>
  /\ UNCHANGED <<svars, rvars>>

\* socket 'open' handler
SocketOpen ==
  /\ socket = CONNECTING
  /\ socket' = OPEN
  /\ cmIsConnected' = TRUE
  /\ reconnectAttempts' = 0
  /\ UNCHANGED <<reconnectTimer, liveSockets, activeOperations, aborted,
                 pc, attempt, reads, emitted, delivered, cut, thrown>>
  /\ UNCHANGED <<svars, rvars>>

\* RequestProcessor.cancelAllOperations
cancelAllOperations ==
  aborted' = [op \in Ops |-> aborted[op] \/ op \in activeOperations]

\* _scheduleReconnect that gives up after the first attempt
scheduleReconnect_givesUp ==
  IF reconnectAttempts >= 1
  THEN UNCHANGED <<reconnectAttempts, reconnectTimer>>
  ELSE /\ reconnectAttempts' = reconnectAttempts + 1
       /\ reconnectTimer' = reconnectTimer + 1

\* ConnectionManager._scheduleReconnect
scheduleReconnect ==
  IF maxReconnectAttempts # Infinity
       /\ reconnectAttempts >= maxReconnectAttempts
  THEN UNCHANGED <<reconnectAttempts, reconnectTimer>>
  ELSE /\ reconnectAttempts' = reconnectAttempts + 1
       /\ reconnectTimer' = reconnectTimer + 1

\* socket 'close' handler: 'disconnected' is dispatched (the ProxySystem
\* cancels all operations) and a reconnect is scheduled.  The server
\* refuses at most MaxRefused connection attempts in a row.
SocketClose ==
  /\ socket \in {CONNECTING, OPEN}
  /\ socket = CONNECTING => reconnectAttempts < MaxRefused
  /\ socket' = CLOSED
  /\ liveSockets' = liveSockets - 1
  /\ cmIsConnected' = FALSE
  /\ cancelAllOperations
  /\ scheduleReconnect
  /\ cut' = [op \in Ops |-> cut[op] \/ pc[op] \in {"fetch", "delay", "stream"}]
  /\ UNCHANGED <<activeOperations, pc, attempt, reads, emitted, delivered,
                 thrown>>
  /\ UNCHANGED <<svars, rvars>>

\* a RequestSpec arrives: _processProxyRequest calls execute, which stores
\* the controller and starts the first fetch
Receive(op) ==
  /\ socket = OPEN
  /\ pc[op] = "none"
  /\ \A o \in Ops : o < op => pc[o] # "none"
  /\ activeOperations' = activeOperations \cup {op}
  /\ pc' = [pc EXCEPT ![op] = "fetch"]
  /\ attempt' = [attempt EXCEPT ![op] = 1]
  /\ UNCHANGED <<socket, cmIsConnected, reconnectTimer, reconnectAttempts,
                 liveSockets, aborted, reads,
                 emitted, delivered, cut, thrown>>
  /\ UNCHANGED <<svars, rvars>>

\* the pending fetch() of op settles.  A 2xx response is returned to
\* _processProxyRequest, whose processStream transmits the headers; any
\* other response becomes an Error; a rejection is caught as it is.
FetchSettle(op, outcome) ==
  /\ pc[op] = "fetch"
  /\ aborted[op] =>
       \/ outcome = Rejection(AbortError)
       \/ outcome.kind = "response" /\ ~ok(outcome)
  /\ ~aborted[op] => outcome # Rejection(AbortError)
  /\ IF outcome.kind = "response"
     THEN IF ok(outcome)
          THEN /\ activeOperations' = activeOperations \ {op}
               /\ pc' = [pc EXCEPT ![op] = "stream"]
               /\ attempt' = [attempt EXCEPT ![op] = 0]
               /\ transmit(op, <<headersFrame(op, outcome)>>)
               /\ UNCHANGED thrown
          ELSE retryOrThrow(op, HttpError(outcome.status))
     ELSE retryOrThrow(op, outcome.error)
  /\ UNCHANGED <<socket, cmIsConnected, reconnectTimer, reconnectAttempts,
                 liveSockets, aborted, reads, cut>>
  /\ UNCHANGED <<svars, rvars>>

\* the inter-attempt delay is over: the loop checks the signal and starts
\* the next fetch
DelayElapsed(op) ==
  /\ pc[op] = "delay"
  /\ IF aborted[op]
     THEN throw(op, Cancelled)
     ELSE /\ attempt' = [attempt EXCEPT ![op] = @ + 1]
          /\ pc' = [pc EXCEPT ![op] = "fetch"]
          /\ UNCHANGED <<activeOperations, thrown, emitted, delivered>>
  /\ UNCHANGED <<socket, cmIsConnected, reconnectTimer, reconnectAttempts,
                 liveSockets, aborted, reads, cut>>
  /\ UNCHANGED <<svars, rvars>>

\* processStream that goes on reading after the end of the stream
StreamRead_goesOn(op, result) ==
  /\ pc[op] = "stream"
  /\ result = "value" => reads[op] < Len(UpstreamBody)
  /\ CASE result = "value" ->
            /\ transmit(op, <<chunkFrame(op, UpstreamBody[reads[op] + 1])>>)
            /\ reads' = [reads EXCEPT ![op] = @ + 1]
            /\ UNCHANGED <<pc, thrown>>
       [] result = "done" ->
            /\ transmit(op, <<streamEndFrame(op)>>)
            /\ UNCHANGED <<pc, reads, thrown>>
       [] result = "error" ->
            /\ transmit(op, <<streamErrorFrame(op, NetworkError),
                              errorFrame(op, NetworkError)>>)
            /\ pc' = [pc EXCEPT ![op] = "done"]
            /\ thrown' = [thrown EXCEPT ![op] = NetworkError]
            /\ UNCHANGED reads
  /\ UNCHANGED <<socket, cmIsConnected, reconnectTimer, reconnectAttempts,
                 liveSockets, activeOperations,
                 aborted, attempt, cut>>
  /\ UNCHANGED <<svars, rvars>>

\* one reader.read() of processStream settles: a chunk is transmitted, the
\* end of the stream is transmitted, or the read fails: _sendStreamError,
\* then the rethrown error reaches the catch of _processProxyRequest
StreamRead(op, result) ==
  /\ pc[op] = "stream"
  /\ result = "value" => reads[op] < Len(UpstreamBody)
  /\ CASE result = "value" ->
            /\ transmit(op, <<chunkFrame(op, UpstreamBody[reads[op] + 1])>>)
            /\ reads' = [reads EXCEPT ![op] = @ + 1]
            /\ UNCHANGED <<pc, thrown>>
       [] result = "done" ->
            /\ transmit(op, <<streamEndFrame(op)>>)
            /\ pc' = [pc EXCEPT ![op] = "done"]
            /\ UNCHANGED <<reads, thrown>>
       [] result = "error" ->
            /\ transmit(op, <<streamErrorFrame(op, NetworkError),
                              errorFrame(op, NetworkError)>>)
            /\ pc' = [pc EXCEPT ![op] = "done"]
            /\ thrown' = [thrown EXCEPT ![op] = NetworkError]
            /\ UNCHANGED reads
  /\ UNCHANGED <<socket, cmIsConnected, reconnectTimer, reconnectAttempts,
                 liveSockets, activeOperations,
                 aborted, attempt, cut>>
  /\ UNCHANGED <<svars, rvars>>

BrowserNext ==
  \/ Establish
  \/ SocketOpen
  \/ SocketClose
  \/ \E op \in Ops : Receive(op)
  \/ \E op \in Ops, outcome \in FetchOutcomes : FetchSettle(op, outcome)
  \/ \E op \in Ops : DelayElapsed(op)
  \/ \E op \in Ops, result \in ReadResults : StreamRead(op, result)

\* the browser plane on its own, the server plane left as constructed
BrowserSpec == Init /\ [][BrowserNext]_vars

\* the browser plane with its timers firing, a connection attempt that is
\* not refused opening, and every pending fetch settling
FairBrowserSpec ==
  /\ BrowserSpec
  /\ WF_vars(Establish)
  /\ WF_vars(SocketOpen)
  /\ WF_vars(\E op \in Ops : DelayElapsed(op))
  /\ WF_vars(\E op \in Ops, outcome \in FetchOutcomes : FetchSettle(op, outcome))

\* every armed timer eventually expires
FairSpec == Spec /\ \A id \in Ids : WF_vars(TimerFire(id))

TypeOK ==
  /\ browserClient \in Sockets \cup {Null}
  /\ requestIdCounter \in 0..MaxEvents
  /\ DOMAIN pendingRequests \subseteq Ids
  /\ \A i \in DOMAIN pendingRequests : ~res[pendingRequests[i].res].finished


\* the response handle a transmitted id belongs to
resOf(id) == transmitted[id].res

\* handles of local requests that were never forwarded
Unforwarded ==
  {h \in Handles : \A i \in DOMAIN transmitted : resOf(i) # h}

\* ----------------------------------------------------------------- C1
\* C1: the data written to a request's client response is exactly the
\* concatenation, in arrival order, of the data of the chunk frames handled
\* for its request_id, and nothing is written to any other response.
ChunksWrittenInOrder ==
  /\ \A id \in DOMAIN transmitted : res[resOf(id)].body = expected[id]
  /\ \A h \in Unforwarded : res[h].body = <<>>

\* two chunks reached, in order, the response of a request whose id differs
\* from its handle, while the response of an earlier request stayed empty
ChunksWrittenInOrder_witness ==
  \E id \in DOMAIN transmitted :
    /\ resOf(id) # id
    /\ res[resOf(id)].body = <<"x", "y">>
    /\ \E h \in Handles \ {resOf(id)} :
         h <= arrived /\ res[h].finished /\ res[h].body = <<>>

\* ----------------------------------------------------------------- C2
\* C2: the event that terminates a request removes its pending entry, and
\* from then on no stream_close, error, timer or disconnect changes its
\* terminal event, re-creates the entry or touches its client response.
TerminalOnce ==
  [][\A id \in Ids :
       /\ terminal'[id] # "none" => ~has(pendingRequests', id)
       /\ terminal[id] # "none" =>
            /\ terminal'[id] = terminal[id]
            /\ res'[resOf(id)] = res[resOf(id)]]_vars

\* a request ended by disconnect whose timer, left armed, has fired since
TerminalOnce_witness ==
  \E id \in DOMAIN transmitted :
    /\ terminal[id] = "disconnect"
    /\ timers[id] = "none"
    /\ res[resOf(id)].statusCode = 502

\* ----------------------------------------------------------------- C3
\* C3: after the browser's socket closes, the table is empty and every
\* request that was pending is finished: 502 'Browser disconnected' before
\* the headers were committed, an ended response when mid-stream.
DisconnectFinishesAll ==
  \A id \in DOMAIN transmitted :
    terminal[id] = "disconnect" =>
      /\ ~has(pendingRequests, id)
      /\ res[resOf(id)].finished
      /\ \/ res[resOf(id)].json = NoJson
         \/ /\ res[resOf(id)].statusCode = 502
            /\ res[resOf(id)].json.error = "Browser disconnected"

\* ----------------------------------------------------------------- C4
\* C4: a new connection drops the previous binding and fails its in-flight
\* requests, so every pending entry was sent on the socket bound now.
PendingOnBoundSocket ==
  \A id \in DOMAIN pendingRequests : transmitted[id].ws = browserClient

\* ----------------------------------------------------------------- C5
\* C5: once an entry's headersSent flag is set, no step changes the status
\* code or the header set of its client response.
HeadersFrozen ==
  [][\A id \in DOMAIN pendingRequests :
       pendingRequests[id].headersSent =>
         /\ res'[resOf(id)].statusCode = res[resOf(id)].statusCode
         /\ res'[resOf(id)].headers = res[resOf(id)].headers]_vars

\* ----------------------------------------------------------------- C6
\* C6: no entry is leaked: every pending entry has an armed timer, and
\* since armed timers expire, the table is empty again and again, whatever
\* requests, frames, expiries and disconnects came before.
NoLeak ==
  /\ [](\A id \in DOMAIN pendingRequests : timers[id] # "none")
  /\ []<>(pendingRequests = EmptyMap)

\* a request that streamed a chunk was removed by its re-armed timer
NoLeak_witness ==
  /\ arrived = 2
  /\ pendingRequests = EmptyMap
  /\ \A id \in Ids : timers[id] = "none"
  /\ \E id \in DOMAIN transmitted : terminal[id] = "timeout_chunk"

\* ----------------------------------------------------------------- C7
\* C7: an error frame for a live request cancels the timer and removes the
\* entry; with the entry's headersSent flag false the client gets the
\* frame's status (or 500) and the JSON body, with the flag true the
\* response is only ended, status and headers as they were.
ErrorFrameReply ==
  [][\A s \in Sockets, data \in Frames :
       (WsMessage(s, data) /\ live(data) /\ data.event_type = "error") =>
         LET id == data.request_id
             h == resOf(id)
         IN /\ ~has(pendingRequests', id)
            /\ timers'[id] = "none"
            /\ IF ~pendingRequests[id].headersSent
               THEN /\ res'[h].statusCode =
                         (IF "status" \in DOMAIN data THEN data.status ELSE 500)
                    /\ res'[h].json = mkJson("Proxy error", data.message, id)
                    /\ res'[h].finished
               ELSE res'[h] = end(res[h])]_vars

\* ----------------------------------------------------------------- C8
\* C8: a timer that fires for a pending id removes the entry and answers
\* the client: 504 'Request timeout' when the entry's headersSent flag is
\* false, an ended response with its body untouched otherwise; whichever
\* of the three timers it is.
TimeoutReply ==
  [][\A id \in Ids :
       (TimerFire(id) /\ has(pendingRequests, id)) =>
         LET h == resOf(id) IN
         /\ ~has(pendingRequests', id)
         /\ res'[h].finished
         /\ IF ~pendingRequests[id].headersSent
            THEN /\ res'[h].statusCode = 504
                 /\ res'[h].json = mkJson("Request timeout", "", id)
            ELSE /\ res'[h].body = res[h].body
                 /\ res'[h].json = NoJson]_vars

\* one request timed out before any frame, another after its headers
TimeoutReply_witness ==
  \E i, j \in DOMAIN transmitted :
    /\ terminal[i] = "timeout_initial" /\ res[resOf(i)].statusCode = 504
    /\ terminal[j] \in {"timeout_headers", "timeout_chunk"}
    /\ res[resOf(j)].finished

\* ----------------------------------------------------------------- C9
\* C9: a local request that arrives while no open browser socket is bound
\* is answered 503 'Browser not connected'; no id is allocated, no entry
\* inserted, no timer armed and no frame transmitted.
NotConnectedReply ==
  [][(ForwardRequest
        /\ (browserClient = Null \/ readyState[browserClient] # OPEN)) =>
       /\ res'[arrived'].statusCode = 503
       /\ res'[arrived'].json.error = "Browser not connected"
       /\ res'[arrived'].finished
       /\ UNCHANGED <<requestIdCounter, pendingRequests, timers,
                      transmitted>>]_vars

\* a request was refused while a bound socket was closing, one was forwarded
NotConnectedReply_witness ==
  /\ \E h \in Unforwarded : h <= arrived /\ res[h].statusCode = 503
  /\ browserClient # Null /\ readyState[browserClient] = CLOSING
  /\ requestIdCounter = 1

\* ---------------------------------------------------------------- C10
\* C10: when the first frame handled for a request is a chunk with data,
\* the client response has status 200 and content-type text/event-stream,
\* its headers are committed and its body starts with that chunk's data;
\* this stays so whatever arrives later, a response_headers frame included.
ChunkBeforeHeaders ==
  \A id \in DOMAIN transmitted :
    (first[id].event_type = "chunk" /\ "data" \in DOMAIN first[id]) =>
      LET r == res[resOf(id)] IN
      /\ r.statusCode = 200
      /\ r.headers["content-type"] = "text/event-stream"
      /\ r.headersSent
      /\ has(pendingRequests, id) => pendingRequests[id].headersSent
      /\ Len(r.body) >= Len(first[id].data)
      /\ SubSeq(r.body, 1, Len(first[id].data)) = first[id].data
      /\ r.body = expected[id]

\* a response_headers frame was handled after a pre-header chunk
ChunkBeforeHeaders_witness ==
  \E id \in DOMAIN pendingRequests :
    /\ timers[id] = "headers"
    /\ first[id].event_type = "chunk"
    /\ res[resOf(id)].body = <<"x">>
    /\ "cache-control" \in DOMAIN res[resOf(id)].headers
    /\ res[resOf(id)].statusCode = 200

\* ---------------------------------------------------------------- C11
\* C11: on the client response of every forwarded request, none of the
\* headers transfer-encoding, content-encoding, content-length, connection
\* is set, whether the headers came from a response_headers frame or from
\* the pre-header chunk path.
NoExcludedHeaders ==
  \A id \in DOMAIN transmitted :
    DOMAIN res[resOf(id)].headers \cap ExcludedHeaders = {}

\* ---------------------------------------------------------------- C12
\* the object a request body denotes: itself, or what its text parses to
bodyValue(r) == parsedBody(r.body)

\* the request was forwarded: its RequestSpec exists
forwarded == requestSpec # NoSpec

\* C12 as stated: whenever the body of a forwarded request is a JSON
\* object with a tools key, whatever its value, the body of the
\* RequestSpec has no tools key.
ToolsRemoved ==
  (forwarded /\ bodyValue(req).type = "object"
     /\ getProp(bodyValue(req), "tools") # Undefined) =>
    getProp(parse(requestSpec.body), "tools") = Undefined

\* C12, amended: the RequestSpec body has no tools key when the tools
\* value is a non-empty list or a non-empty string; with any other value
\* (an empty list, an object, an empty string, null) tools is forwarded
\* as it came.
ToolsRemovedWhenNonEmpty ==
  (forwarded /\ bodyValue(req).type = "object") =>
    LET tools == getProp(bodyValue(req), "tools")
        nonEmpty == \/ tools.type = "array" /\ tools.items # <<>>
                    \/ tools.type = "string" /\ tools.str # ""
    IN getProp(parse(requestSpec.body), "tools") =
         (IF nonEmpty THEN Undefined ELSE tools)

\* a text body with a one-element tools list was forwarded without tools,
\* its contents kept
ToolsRemovedWhenNonEmpty_witness ==
  /\ forwarded
  /\ req.body.type = "string"
  /\ getProp(bodyValue(req), "tools").type = "array"
  /\ getProp(bodyValue(req), "tools").items # <<>>
  /\ getProp(parse(requestSpec.body), "tools") = Undefined
  /\ getProp(parse(requestSpec.body), "contents") = Str("hi")

\* ---------------------------------------------------------------- C13
\* C13: the query_params of a forwarded RequestSpec contain no key
\* parameter, whatever its incoming value, and every other parameter is
\* forwarded unchanged.
QueryKeyRemoved ==
  forwarded =>
    /\ "key" \notin DOMAIN requestSpec.query_params
    /\ \A k \in DOMAIN req.query \ {"key"} :
         /\ k \in DOMAIN requestSpec.query_params
         /\ requestSpec.query_params[k] = req.query[k]

\* ---------------------------------------------------------------- C14
\* C14: a string body that does not parse as JSON is forwarded unchanged:
\* the body of the RequestSpec is exactly the incoming string.
NonJsonBodyUnchanged ==
  (forwarded /\ req.body.type = "string"
     /\ parse(req.body.str) = SyntaxError) =>
    requestSpec.body = req.body.str

\* ---------------------------------------------------------------- C15
\* the frames of one event type among those emitted for op
framesOf(op, type) ==
  SelectSeq(emitted[op], LAMBDA f : f.event_type = type)

\* C15: the fetcher makes at most 15 attempts for a RequestSpec; an
\* attempt starts only when the RequestSpec arrives or after the delay
\* that follows a failed attempt, the operation not cancelled; a 2xx
\* response goes to the streamer, and once an operation streams or has
\* ended it makes no further attempt.
FetchLoop ==
  /\ [](\A op \in Ops : attempt[op] <= maxRetries)
  /\ [][\A op \in Ops :
          /\ attempt'[op] > attempt[op] =>
               /\ attempt'[op] = attempt[op] + 1
               /\ pc'[op] = "fetch"
               /\ \/ pc[op] = "none"
                  \/ pc[op] = "delay" /\ ~aborted[op]
          /\ pc'[op] = "fetch" => (pc[op] = "fetch" \/ attempt'[op] > attempt[op])
          /\ FetchSettle(op, Response(200)) =>
               pc'[op] = "stream" /\ emitted'[op] # emitted[op]
          /\ pc[op] \in {"stream", "done"} =>
               pc'[op] \in {"stream", "done"} /\ attempt'[op] = 0]_vars

\* the fifteenth attempt of an operation is under way
FetchLoop_witness ==
  \E op \in Ops : pc[op] = "fetch" /\ attempt[op] = maxRetries

\* ---------------------------------------------------------------- C16
\* C16: when the fifteenth attempt of an operation fails with a non-2xx
\* response, the browser emits an error frame for it whose status is the
\* status of that response.
LastStatusReported ==
  [][\A op \in Ops, code \in {429, 503} :
       (FetchSettle(op, Response(code)) /\ attempt[op] = maxRetries
          /\ ~aborted[op]) =>
         /\ Len(emitted'[op]) = Len(emitted[op]) + 1
         /\ emitted'[op][Len(emitted'[op])].event_type = "error"
         /\ emitted'[op][Len(emitted'[op])].status = code]_vars

\* ---------------------------------------------------------------- C17
\* C17: for an operation whose fetch returned 2xx, the frames emitted are
\* one response_headers frame first, then one chunk frame per read with
\* the data read, in read order, and on clean end of stream one
\* stream_close frame, which is the last frame; stream_close and error
\* are never both emitted.
StreamFrames ==
  \A op \in Ops :
    LET e == emitted[op] IN
    /\ pc[op] = "stream" => e # <<>>
    /\ (e # <<>> /\ e[1].event_type = "response_headers") =>
         /\ Len(framesOf(op, "response_headers")) = 1
         /\ Len(framesOf(op, "chunk")) = reads[op]
         /\ \A i \in 1..reads[op] : e[i + 1] = chunkFrame(op, UpstreamBody[i])
         /\ Len(framesOf(op, "stream_close")) <= 1
         /\ framesOf(op, "stream_close") # <<>> =>
              /\ e[Len(e)].event_type = "stream_close"
              /\ framesOf(op, "error") = <<>>
              /\ pc[op] = "done"
         /\ (pc[op] = "done" /\ thrown[op] = NoError) =>
              Len(framesOf(op, "stream_close")) = 1

\* an operation emitted its headers, both chunks and stream_close
StreamFrames_witness ==
  \E op \in Ops :
    emitted[op] = <<headersFrame(op, Response(200)),
                    chunkFrame(op, UpstreamBody[1]),
                    chunkFrame(op, UpstreamBody[2]), streamEndFrame(op)>>

\* ---------------------------------------------------------------- C18
\* C18: when a read of the upstream stream fails, the browser emits
\* exactly one error frame, with status 500, for the operation, and it is
\* the last frame emitted for it.
OneStreamError ==
  \A op \in Ops :
    (emitted[op] # <<>> /\ emitted[op][1].event_type = "response_headers"
       /\ thrown[op] # NoError) =>
      /\ Len(framesOf(op, "error")) = 1
      /\ emitted[op][Len(emitted[op])].event_type = "error"
      /\ emitted[op][Len(emitted[op])].status = 500

\* ---------------------------------------------------------------- C19
\* C19: when the control channel closes, every operation in flight, in
\* the fetch/retry phase or streaming, has its abort signal set; from then
\* on it reads nothing more from the upstream and none of its frames is
\* sent on the channel.
DisconnectAbortsAll ==
  [][\A op \in Ops :
       /\ (socket # CLOSED /\ socket' = CLOSED
             /\ pc[op] \in {"fetch", "delay", "stream"}) => aborted'[op]
       /\ cut[op] =>
            /\ reads'[op] = reads[op]
            /\ delivered'[op] = delivered[op]]_vars

\* ---------------------------------------------------------------- C20
\* C20: a frame that is unparseable, has no request_id, names an id that
\* is not pending, or has an unknown event_type for a pending id changes
\* nothing: not the binding, the sockets' states, the id counter, the
\* pending table with its flags, the timers, the client responses or what
\* was transmitted; and the chunk frames handled after it are still
\* written to their responses.
DroppedFrameNoEffect ==
  /\ [][dropped' # dropped =>
          UNCHANGED <<browserClient, readyState, requestIdCounter,
                      pendingRequests, timers, armed, res, arrived, transmitted,
                      expected, terminal, events, first>>]_vars
  /\ [](dropped # 0 => ChunksWrittenInOrder)

\* a frame was dropped while a request was pending and no frame had been
\* handled; the chunk handled since then is on the client response
DroppedFrameNoEffect_witness ==
  /\ dropped = 2
  /\ events = 3
  /\ \E id \in DOMAIN pendingRequests :
       first[id].event_type = "chunk" /\ res[resOf(id)].body = <<"x">>

\* ---------------------------------------------------------------- C21
\* C21: every pending entry has exactly one timeout that can still fire,
\* the one stored in the entry; handling a response_headers or chunk frame
\* leaves exactly one, a new 300 s one; the timeout that ends a request is
\* the stored one, so the 600 s timeout ends only a request for which no
\* frame was handled and a 300 s timeout ends one only if no frame was
\* handled since it was set.
OneArmedTimer ==
  /\ [](\A id \in DOMAIN pendingRequests :
          /\ Len(armed[id]) = 1
          /\ armed[id][1] = timers[id]
          /\ (timers[id] = "initial") = (first[id] = NoFrame))
  /\ [](\A id \in DOMAIN transmitted :
          terminal[id] = "timeout_initial" => first[id] = NoFrame)
  /\ [][\A id \in DOMAIN pendingRequests :
          /\ (has(pendingRequests', id) /\ res'[resOf(id)] # res[resOf(id)])
               => armed'[id] \in { <<"headers">>, <<"chunk">> }
          /\ (has(pendingRequests', id) /\ armed'[id] # armed[id])
               => armed'[id] \in { <<"headers">>, <<"chunk">> }
          /\ (\E kind \in {"initial", "headers", "chunk"} :
                 /\ terminal'[id] = "timeout_" \o kind
                 /\ terminal[id] # terminal'[id])
               => /\ terminal'[id] = "timeout_" \o timers[id]
                  /\ armed'[id] = <<>>]_vars

\* a request ended on the timeout set by its last chunk, after its headers
OneArmedTimer_witness ==
  \E id \in DOMAIN transmitted :
    /\ terminal[id] = "timeout_chunk"
    /\ first[id].event_type = "response_headers"
    /\ expected[id] # <<>>
    /\ armed[id] = <<>>

\* ---------------------------------------------------------------- C22
\* C22: once an operation in flight is cancelled, during a fetch or during
\* the delay between two attempts, it starts no further fetch, the error it
\* ends with is named AbortError, and no error frame is emitted for it.
CancelledEndsSilently ==
  /\ [][\A op \in Ops :
          aborted[op] => ~(pc[op] # "fetch" /\ pc'[op] = "fetch")]_vars
  /\ [](\A op \in Ops :
          (aborted[op] /\ pc[op] = "done") =>
            /\ thrown[op].name = "AbortError"
            /\ framesOf(op, "error") = <<>>)

\* ---------------------------------------------------------------- C23
\* C23: every close of a socket, one that never opened included, schedules
\* exactly one reconnect, however many attempts were made before; at most
\* one socket is open or connecting and at most one reconnect is scheduled
\* at any time, never both; and since the server stops refusing, the
\* manager is connected again after every disconnect.
ReconnectsForever ==
  /\ [](liveSockets + reconnectTimer <= 1)
  /\ [](liveSockets = 1 <=> socket \in {CONNECTING, OPEN})
  /\ [][(socket \in {CONNECTING, OPEN} /\ socket' = CLOSED) =>
         reconnectTimer' = reconnectTimer + 1]_vars
  /\ ~cmIsConnected ~> cmIsConnected

\* a second reconnect is under way after a socket that never opened closed
ReconnectsForever_witness ==
  /\ socket = CONNECTING
  /\ reconnectAttempts = 2
  /\ \E op \in Ops : aborted[op]

\* ---------------------------------------------------------------- C24
\* C24: a frame passed to transmit while the channel is disconnected is
\* not sent, and what a step sends is only what transmit was passed in
\* that step: nothing passed earlier is kept and sent after a reconnect.
DisconnectedFrameDropped ==
  [][\A op \in Ops :
       LET passed == SubSeq(emitted'[op], Len(emitted[op]) + 1,
                            Len(emitted'[op]))
       IN /\ emitted'[op] = emitted[op] \o passed
          /\ IF cmIsConnected /\ socket # NoSocket
             THEN delivered'[op] = delivered[op] \o passed
             ELSE delivered'[op] = delivered[op]]_vars

\* a chunk was dropped during a disconnect and a later frame of the same
\* stream was sent after the reconnect
DisconnectedFrameDropped_witness ==
  \E op \in Ops :
    /\ cmIsConnected
    /\ cut[op]
    /\ Len(delivered[op]) >= 2
    /\ Len(delivered[op]) < Len(emitted[op])
    /\ delivered[op][Len(delivered[op])] = emitted[op][Len(emitted[op])]
    /\ delivered[op][Len(delivered[op]) - 1]
         # emitted[op][Len(emitted[op]) - 1]

\* ---------------------------------------------------------------- C25
\* sockets are accepted in increasing order: s was replaced when a later
\* one has connected
replaced(s) ==
  \E t \in Sockets : t > s /\ readyState[t] # CONNECTING

\* C25: while the socket that connected last is open, it is the bound
\* browser and isConnected() holds, whatever happened to older sockets.
LatestSocketBound ==
  \A s \in Sockets :
    (readyState[s] = OPEN /\ ~replaced(s)) =>
      /\ browserClient = s
      /\ isConnected

\* ---------------------------------------------------------------- C26
\* C26: the close of a socket leaves alone the pending entries of the
\* requests that were transmitted on another socket: they stay in the
\* table and their client responses are not touched.
CloseFailsOwnRequestsOnly ==
  [][\A s \in Sockets :
       (readyState[s] # CLOSED /\ readyState'[s] = CLOSED) =>
         \A id \in DOMAIN pendingRequests :
           transmitted[id].ws # s =>
             /\ has(pendingRequests', id)
             /\ res'[resOf(id)] = res[resOf(id)]]_vars

\* ---------------------------------------------------------------- C27
\* C27: a frame that arrives on a socket replaced by a newer connection
\* changes no pending entry and no client response.
ReplacedSocketFrameIgnored ==
  [][\A s \in Sockets :
       (replaced(s)
          /\ \E data \in FramesFor(1..requestIdCounter) : WsMessage(s, data))
       => UNCHANGED <<pendingRequests, res>>]_vars

====
